---- MODULE Spec2Model ----
(***************************************************************************)
(* SmartClipper backend: the job registry, the HTTP handlers of            *)
(* app/routers/jobs.py and the background pipeline process_job.            *)
(*                                                                         *)
(* Scheduling.  Every handler and process_job itself are `async def`       *)
(* coroutines run by one event loop.  process_job contains no `await`, so  *)
(* from the moment the loop starts it until it returns no other coroutine  *)
(* runs: `running` names the job whose pipeline holds the loop, and every  *)
(* handler is guarded by running = None.  The steps of the pipeline are    *)
(* still separate actions, one per statement group between two external    *)
(* operations, so that every value written to the job record is a state.   *)
(***************************************************************************)
EXTENDS Integers, Sequences, FiniteSets, TLC

\* ---------------------------------------------------------------- bounds
MaxSegs == 2                      \* longest parsed script, in segments
JobIds == {"j1", "j2"}            \* the uuid4 tokens create_job can draw

None == "<none>"                  \* Python's None (absent job, unset field)

\* ------------------------------------------------------------- constants
AVAILABLE_VOICES == {"en_US-lessac-medium", "en_US-amy-medium", "en_GB-alan-medium"}
VOICE_MODELS == {"en_US-lessac-medium", "en_US-amy-medium", "en_GB-alan-medium"}
\* voices a request may name: a registered one and an unregistered one
Voices == {"en_US-lessac-medium", "xx_XX-bogus"}

\* JobStatus, in declaration order
JobStatus == <<"pending", "uploading", "generating_audio", "processing_video",
               "finalizing", "completed", "failed">>
Rank(s) == CHOOSE k \in 1..Len(JobStatus) : JobStatus[k] = s
Terminal == {"completed", "failed"}

\* A timestamp is the list of its colon-separated tokens; a token that int()
\* rejects is NaN.  <<1, 5>> is "01:05", <<NaN>> is a token such as "abc",
\* which the pipe format stores when its pattern does not match.
NaN == -1
Timestamps == {<<1, 5>>, <<NaN>>}

\* durations wave reports for a synthesized narration (0: an empty wav)
Durations == {0, 3}

\* parse_timestamp raises ValueError
parse_timestamp_raises(ts) ==
    \/ Len(ts) \notin {2, 3}
    \/ \E k \in 1..Len(ts) : ts[k] = NaN

\* parse_timestamp taking every timestamp for MM:SS
parse_timestamp_MinSec(ts) == ts[1] * 60 + ts[2]

parse_timestamp(ts) ==
    IF Len(ts) = 2 THEN ts[1] * 60 + ts[2]
    ELSE ts[1] * 3600 + ts[2] * 60 + ts[3]

\* ----------------------------------------------------------------- state
VARIABLES
    jobs,       \* the registry: job id -> Job record
    used,       \* ids uuid4 has already produced
    tasks,      \* background tasks added and not yet started
    running,    \* the job whose process_job holds the event loop, or None
    pc,         \* position of the running process_job
    i,          \* its loop index
    hung,       \* it is blocked in an external call that never returns
    thumbnails, \* its local list `thumbnails`
    fs,         \* the file system under TEMP_DIR and OUTPUT_DIR
    written,    \* per job, the last triple passed to update_job_progress
    resp,       \* the response of the handler that ran last, if one just ran
    fn,         \* the function of utils/parser.py under call, or "none"
    arg,        \* its argument
    ret         \* what it returned or raised, once it has

vars == <<jobs, used, tasks, running, pc, i, hung, thumbnails, fs, written, resp,
          fn, arg, ret>>

\* the variables of a call of a pure function, which the service leaves alone
pure == <<fn, arg, ret>>

\* ----------------------------------------------------------- file system
TempDir(id) == <<"temp", id>>
OutDir(id) == <<"output", id>>
TempFile(id, name, k) == <<"temp", id, name, k>>
OutFile(id, name, k) == <<"output", id, name, k>>
\* rmtree of the parent directory, which all jobs share
rmtree_All(files, root, id) == {p \in files : p[1] # root}

\* shutil.rmtree(dir, ignore_errors=True)
rmtree(files, root, id) == {p \in files : ~(p[1] = root /\ p[2] = id)}

\* ------------------------------------------------------------ job record
\* ScriptSegment.audio_duration: Optional[float] = None
NoDuration == -1

NewSegment(ts) ==
    [timestamp |-> ts, audio_duration |-> NoDuration, audio_path |-> FALSE, clip_path |-> FALSE]

\* Job(id=..., source_video_path=..., voice=..., segments=..., message=...)
NewJob(voice, segments) ==
    [voice |-> voice,
     segments |-> segments,
     status |-> "pending",
     progress |-> 0,
     message |-> "Video uploaded, starting processing...",
     error |-> None,
     completed_at |-> FALSE,
     video_path |-> FALSE,
     audio_path |-> FALSE,
     thumbnails |-> <<>>]

\* update_job_progress without its assignment to job.progress
update_job_progress_NoProgress(job, status, progress, message) ==
    [job EXCEPT !.status = status, !.message = message]

update_job_progress(job, status, progress, message) ==
    [job EXCEPT !.status = status, !.progress = progress, !.message = message]

\* Job.get_progress leaving the error out
get_progress_NoError(job) ==
    [status |-> job.status, progress |-> job.progress,
     message |-> job.message, error |-> None]

\* Job.get_progress
get_progress(job) ==
    [status |-> job.status, progress |-> job.progress,
     message |-> job.message, error |-> job.error]

NoBody == [status |-> "", progress |-> -1, message |-> "", error |-> None]
NoResp == [op |-> "none", id |-> None, code |-> 0, detail |-> "", body |-> NoBody]
Response(op, id, code, detail) ==
    [op |-> op, id |-> id, code |-> code, detail |-> detail, body |-> NoBody]

NoJobs == [id \in {} |-> NoBody]

\* no call has returned yet
NoRet == [state |-> "pending", value |-> <<>>]

\* the service as constructed, before any request
Service ==
    /\ jobs = NoJobs
    /\ used = {}
    /\ tasks = {}
    /\ running = None
    /\ pc = "idle"
    /\ i = 0
    /\ hung = FALSE
    /\ thumbnails = <<>>
    /\ fs = {}
    /\ written = NoJobs
    /\ resp = NoResp

Init ==
    /\ Service
    /\ fn = "none"
    /\ arg = <<>>
    /\ ret = NoRet

\* ---------------------------------------------------------------- handlers
\* the parsed scripts a request may carry (parse_script_input's result): of
\* every length up to MaxSegs, the script whose timestamps all convert and
\* the one whose last timestamp does not
SegInputs ==
    {s \in UNION {[1..n -> Timestamps] : n \in 0..MaxSegs} :
        \A k \in 1..(Len(s) - 1) : ~parse_timestamp_raises(s[k])}

\* create_job without the voice validation
ValidVoice_Any(voice) == TRUE

ValidVoice(voice) == voice \in AVAILABLE_VOICES

Triple(status, progress, message) ==
    [status |-> status, progress |-> progress, message |-> message]

Idle == running = None

Reject(why) ==
    /\ resp' = Response("create", None, 400, why)
    /\ UNCHANGED <<jobs, used, tasks, fs, written>>

\* create_job lines 172-219: uuid4, makedirs, the upload, Job(...), add_task
Accept(segs, voice) ==
    /\ JobIds \ used # {}
    /\ LET id == CHOOSE x \in JobIds \ used : TRUE IN
       \E upload \in {"ok", "too_large", "io_error"} :
         /\ used' = used \cup {id}
         /\ IF upload = "ok"
            THEN /\ fs' = fs \cup {TempDir(id), TempFile(id, "source", 0)}
                 /\ jobs' = (id :> NewJob(voice, [k \in DOMAIN segs |-> NewSegment(segs[k])])) @@ jobs
                 /\ written' = (id :> Triple("pending", 0, "Video uploaded, starting processing...")) @@ written
                 /\ tasks' = tasks \cup {id}
                 /\ resp' = Response("create", id, 200, "pending")
            ELSE /\ fs' = rmtree(fs \cup {TempDir(id)}, "temp", id)
                 /\ resp' = Response("create", None,
                                     IF upload = "too_large" THEN 413 ELSE 500,
                                     IF upload = "too_large" THEN "File too large"
                                     ELSE "Failed to save video")
                 /\ UNCHANGED <<jobs, tasks, written>>

\* create_job: the three validations of lines 155-170, in order, then the rest
CreateJob ==
    /\ Idle
    /\ \E content_ok \in BOOLEAN :
         IF ~content_ok THEN Reject("File must be a video (MP4, MOV, etc.)")
         ELSE \E segs \in SegInputs :
              IF segs = <<>> THEN Reject("No valid script segments found")
              ELSE \E voice \in Voices :
                   IF ~ValidVoice(voice) THEN Reject("Invalid voice")
                   ELSE Accept(segs, voice)
    /\ UNCHANGED <<running, pc, i, hung, thumbnails>>
    /\ UNCHANGED pure

NotComplete(status) == "Job not complete. Current status: " \o status

get_job_status(id) ==
    IF id \notin DOMAIN jobs THEN Response("status", id, 404, "Job not found")
    ELSE [Response("status", id, 200, "") EXCEPT !.body = get_progress(jobs[id])]

\* get_job_preview without the status check
get_job_preview_NoStatusCheck(id) ==
    IF id \notin DOMAIN jobs THEN Response("preview", id, 404, "Job not found")
    ELSE Response("preview", id, 200, "preview")

get_job_preview(id) ==
    IF id \notin DOMAIN jobs THEN Response("preview", id, 404, "Job not found")
    ELSE IF jobs[id].status # "completed"
    THEN Response("preview", id, 400, NotComplete(jobs[id].status))
    ELSE Response("preview", id, 200, "preview")

download_video(id) ==
    IF id \notin DOMAIN jobs THEN Response("download", id, 404, "Job not found")
    ELSE IF jobs[id].status # "completed"
    THEN Response("download", id, 400, NotComplete(jobs[id].status))
    ELSE IF ~jobs[id].video_path \/ OutFile(id, "output.mp4", 0) \notin fs
    THEN Response("download", id, 404, "Video file not found")
    ELSE Response("download", id, 200, "video/mp4")

Reads == <<jobs, used, tasks, running, pc, i, hung, thumbnails, fs, written, pure>>

GetJobStatus ==
    /\ Idle
    /\ \E id \in JobIds : resp' = get_job_status(id)
    /\ UNCHANGED Reads

GetJobPreview ==
    /\ Idle
    /\ \E id \in JobIds : resp' = get_job_preview(id)
    /\ UNCHANGED Reads

DownloadVideo ==
    /\ Idle
    /\ \E id \in JobIds : resp' = download_video(id)
    /\ UNCHANGED Reads

\* del jobs[job_id]
Without(f, id) == [k \in DOMAIN f \ {id} |-> f[k]]

\* delete_job without the rmtree of the temporary directory
delete_files_OutputOnly(files, id) == rmtree(files, "output", id)

\* the two rmtree calls of delete_job
delete_files(files, id) == rmtree(rmtree(files, "output", id), "temp", id)

DeleteJob ==
    /\ Idle
    /\ \E id \in JobIds :
         IF id \notin DOMAIN jobs
         THEN /\ resp' = Response("delete", id, 404, "Job not found")
              /\ UNCHANGED <<jobs, fs, written>>
         ELSE /\ fs' = delete_files(fs, id)
              /\ jobs' = Without(jobs, id)
              /\ written' = Without(written, id)
              /\ resp' = Response("delete", id, 200, "Job deleted")
    /\ UNCHANGED <<used, tasks, running, pc, i, hung, thumbnails>>
    /\ UNCHANGED pure

\* ---------------------------------------------------------------- pipeline
\* process_job without `if not job: return`
StartTask_NoLookup ==
    /\ Idle
    /\ \E id \in tasks :
         /\ tasks' = tasks \ {id}
         /\ running' = id /\ pc' = "init"
    /\ resp' = NoResp
    /\ UNCHANGED <<jobs, used, i, hung, thumbnails, fs, written>>
    /\ UNCHANGED pure

\* background_tasks runs process_job(job_id): `job = jobs.get(job_id)`,
\* `if not job: return`; otherwise the coroutine holds the loop to its end.
StartTask ==
    /\ Idle
    /\ \E id \in tasks :
         /\ tasks' = tasks \ {id}
         /\ IF id \in DOMAIN jobs
            THEN running' = id /\ pc' = "init"
            ELSE UNCHANGED <<running, pc>>
    /\ resp' = NoResp
    /\ UNCHANGED <<jobs, used, i, hung, thumbnails, fs, written>>
    /\ UNCHANGED pure

Job == jobs[running]
NSegs == Len(Job.segments)

\* the pipeline is at `at`, inside process_job, and not blocked
At(at) == running # None /\ ~hung /\ pc = at

\* an exception handler that swallows the exception (except: pass)
on_exception_Swallow(job, e) == job

\* except Exception as e: job.status / job.error / job.message
on_exception(job, e) ==
    [job EXCEPT !.status = "failed", !.error = e, !.message = "Processing failed: " \o e]

\* the statement at pc raises e: the handler runs and process_job returns
Raise(e) ==
    /\ jobs' = [jobs EXCEPT ![running] = on_exception(@, e)]
    /\ running' = None
    /\ pc' = "idle"
    /\ i' = 0
    /\ thumbnails' = <<>>
    /\ resp' = NoResp
    /\ UNCHANGED <<used, tasks, hung, written>>

\* update_job_progress(job, ...) on the running job
Update(job, status, progress, message) ==
    /\ jobs' = [jobs EXCEPT ![running] = update_job_progress(job, status, progress, message)]
    /\ written' = [written EXCEPT ![running] = Triple(status, progress, message)]

\* outcomes of a subprocess.run with a timeout, and of one without.  "fail"
\* is a non-zero exit (or a missing or unreadable output), "timeout" is
\* subprocess.TimeoutExpired; both raise inside the call.
Bounded == {"ok", "fail", "timeout"}
Unbounded == {"ok", "fail", "hang"}

\* str(e): the texts differ from one raise site to the next and none is
\* empty; the model keeps of each only the call that raised
Failed(call) == call \o " failed"

\* the call never returns: process_job, and the loop with it, stays blocked
Hang ==
    /\ hung' = TRUE
    /\ resp' = NoResp
    /\ UNCHANGED <<jobs, used, tasks, running, pc, i, thumbnails, fs, written>>

\* lines 41-47: PiperTTS(), VideoProcessor() and the two makedirs
StepInit ==
    /\ UNCHANGED pure
    /\ At("init")
    /\ \E out \in {"ok", "fail"} :
         IF out = "ok"
         THEN /\ fs' = fs \cup {TempDir(running), OutDir(running)}
              /\ pc' = "source"
              /\ resp' = NoResp
              /\ UNCHANGED <<jobs, used, tasks, running, i, hung, thumbnails, written>>
         ELSE Raise(Failed("VideoProcessor")) /\ UNCHANGED fs

\* lines 50-53
StepSource ==
    /\ UNCHANGED pure
    /\ At("source")
    /\ IF TempFile(running, "source", 0) \notin fs
       THEN Raise("Source video file not found") /\ UNCHANGED fs
       ELSE /\ Update(Job, "uploading", 20, "Video ready for processing")
            /\ pc' = "audio_begin"
            /\ resp' = NoResp
            /\ UNCHANGED <<used, tasks, running, i, hung, thumbnails, fs>>

\* line 56
StepAudioBegin ==
    /\ UNCHANGED pure
    /\ At("audio_begin")
    /\ Update(Job, "generating_audio", 25, "Generating voiceover...")
    /\ pc' = "tts"
    /\ i' = 0
    /\ resp' = NoResp
    /\ UNCHANGED <<used, tasks, running, hung, thumbnails, fs>>

\* the narration loop with the weight of the clip loop
AudioProgress_ClipWeight(k, n) == 25 + (35 * (k + 1)) \div n

\* the narration loop rounding its share up
AudioProgress_RoundUp(k, n) == 25 + (15 * (k + 1) + n - 1) \div n

\* the clip loop rounding its share up
ClipProgress_RoundUp(k, n) == 45 + (35 * (k + 1) + n - 1) \div n

\* the clip loop adding the whole span for every clip
ClipProgress_Unweighted(k, n) == 45 + 35 * (k + 1)

\* progress = 25 + int((i + 1) / len(job.segments) * 15)
AudioProgress(k, n) == 25 + (15 * (k + 1)) \div n

\* progress = 45 + int((i + 1) / len(job.segments) * 35)
ClipProgress(k, n) == 45 + (35 * (k + 1)) \div n

GeneratedAudio(k, n) == "Generated audio " \o ToString(k + 1) \o "/" \o ToString(n)
ProcessedClip(k, n) == "Processed clip " \o ToString(k + 1) \o "/" \o ToString(n)

\* lines 59-68: one iteration of the narration loop (i is 0-based)
StepTts ==
    /\ UNCHANGED pure
    /\ At("tts")
    /\ IF Job.voice \notin VOICE_MODELS
       THEN Raise("Unknown voice") /\ UNCHANGED fs
       ELSE \E out \in Bounded :
            IF out = "ok"
            THEN \E duration \in Durations :
                 /\ fs' = fs \cup {TempFile(running, "audio", i)}
                 /\ Update([Job EXCEPT !.segments[i + 1].audio_duration = duration,
                                        !.segments[i + 1].audio_path = TRUE],
                           "generating_audio", AudioProgress(i, NSegs), GeneratedAudio(i, NSegs))
                 /\ i' = i + 1
                 /\ pc' = IF i + 1 < NSegs THEN "tts" ELSE "concat_audio"
                 /\ resp' = NoResp
                 /\ UNCHANGED <<used, tasks, running, hung, thumbnails>>
            ELSE Raise(Failed("generate_audio")) /\ UNCHANGED fs

\* lines 71-74
StepConcatAudio ==
    /\ UNCHANGED pure
    /\ At("concat_audio")
    /\ \E out \in Bounded :
         IF out = "ok"
         THEN /\ fs' = fs \cup {OutFile(running, "audio.wav", 0)}
              /\ Update([Job EXCEPT !.audio_path = TRUE], "generating_audio", 40, "Audio complete")
              /\ pc' = "video_begin"
              /\ resp' = NoResp
              /\ UNCHANGED <<used, tasks, running, i, hung, thumbnails>>
         ELSE Raise(Failed("concatenate_audio")) /\ UNCHANGED fs

\* line 77
StepVideoBegin ==
    /\ UNCHANGED pure
    /\ At("video_begin")
    /\ Update(Job, "processing_video", 45, "Processing video clips...")
    /\ pc' = "extract"
    /\ i' = 0
    /\ resp' = NoResp
    /\ UNCHANGED <<used, tasks, running, hung, thumbnails, fs>>

\* a pipeline step that only moves on to `next`, creating the files `made`
Advance(next, made) ==
    /\ fs' = fs \cup made
    /\ pc' = next
    /\ resp' = NoResp
    /\ UNCHANGED <<jobs, used, tasks, running, i, hung, thumbnails, written>>

Segment == Job.segments[i + 1]

\* process_clip called with the audio duration of the first segment
target_duration_First == Job.segments[1].audio_duration

\* the third argument of process_clip: segment.audio_duration
target_duration == Segment.audio_duration

\* process_clip lines 206-211 and extract_clip
StepExtract ==
    /\ UNCHANGED pure
    /\ At("extract")
    /\ IF parse_timestamp_raises(Segment.timestamp)
       THEN Raise(Failed("parse_timestamp")) /\ UNCHANGED fs
       ELSE \E out \in Bounded :
            IF out = "ok" THEN Advance("dims", {TempFile(running, "raw", i)})
            ELSE Raise(Failed("extract_clip")) /\ UNCHANGED fs

\* get_video_dimensions: subprocess.run without a timeout
StepDims ==
    /\ UNCHANGED pure
    /\ At("dims")
    /\ \E out \in Unbounded :
         CASE out = "ok" -> Advance("analyze", {})
           [] out = "fail" -> Raise(Failed("get_video_dimensions")) /\ UNCHANGED fs
           [] out = "hang" -> Hang

\* SubjectDetector.analyze_clip
StepAnalyze ==
    /\ UNCHANGED pure
    /\ At("analyze")
    /\ \E out \in {"ok", "fail"} :
         IF out = "ok" THEN Advance("crop", {})
         ELSE Raise(Failed("analyze_clip")) /\ UNCHANGED fs

\* calculate_crop_region and crop_and_resize
StepCrop ==
    /\ UNCHANGED pure
    /\ At("crop")
    /\ \E out \in Bounded :
         IF out = "ok" THEN Advance("duration", {TempFile(running, "cropped", i)})
         ELSE Raise(Failed("crop_and_resize")) /\ UNCHANGED fs

\* time_stretch lines 157-168: get_clip_duration (subprocess.run without a
\* timeout), the check of current_duration, the division by target_duration
StepDuration ==
    /\ UNCHANGED pure
    /\ At("duration")
    /\ \E out \in Unbounded \cup {"invalid"} :
         CASE out = "ok" ->
                IF target_duration = 0
                THEN Raise(Failed("time_stretch")) /\ UNCHANGED fs
                ELSE Advance("stretch", {})
           [] out = "invalid" -> Raise(Failed("time_stretch")) /\ UNCHANGED fs
           [] out = "fail" -> Raise(Failed("time_stretch")) /\ UNCHANGED fs
           [] out = "hang" -> Hang

\* time_stretch lines 170-186, process_clip lines 231-237, process_job 88-93
StepStretch ==
    /\ UNCHANGED pure
    /\ At("stretch")
    /\ \E out \in Bounded :
         IF out = "ok"
         THEN /\ fs' = (fs \cup {TempFile(running, "final", i)})
                         \ {TempFile(running, "raw", i), TempFile(running, "cropped", i)}
              /\ Update([Job EXCEPT !.segments[i + 1].clip_path = TRUE],
                        "processing_video", ClipProgress(i, NSegs), ProcessedClip(i, NSegs))
              /\ i' = i + 1
              /\ pc' = IF i + 1 < NSegs THEN "extract" ELSE "final_begin"
              /\ resp' = NoResp
              /\ UNCHANGED <<used, tasks, running, hung, thumbnails>>
         ELSE Raise(Failed("time_stretch")) /\ UNCHANGED fs

\* line 96
StepFinalBegin ==
    /\ UNCHANGED pure
    /\ At("final_begin")
    /\ Update(Job, "finalizing", 85, "Assembling final video...")
    /\ pc' = "concat_clips"
    /\ resp' = NoResp
    /\ UNCHANGED <<used, tasks, running, i, hung, thumbnails, fs>>

\* lines 98-99
StepConcatClips ==
    /\ UNCHANGED pure
    /\ At("concat_clips")
    /\ \E out \in Bounded :
         IF out = "ok" THEN Advance("merge", {TempFile(running, "concatenated", 0)})
         ELSE Raise(Failed("concatenate_clips")) /\ UNCHANGED fs

\* lines 101-106
StepMerge ==
    /\ UNCHANGED pure
    /\ At("merge")
    /\ \E out \in Bounded :
         IF out = "ok"
         THEN /\ fs' = fs \cup {OutFile(running, "output.mp4", 0)}
              /\ Update([Job EXCEPT !.video_path = TRUE], "finalizing", 95, "Generating preview...")
              /\ pc' = "thumb"
              /\ i' = 0
              /\ thumbnails' = <<>>
              /\ resp' = NoResp
              /\ UNCHANGED <<used, tasks, running, hung>>
         ELSE Raise(Failed("merge_audio_video")) /\ UNCHANGED fs

\* the thumbnail loop finding no clip to take a thumbnail from
clip_exists_Never == FALSE

\* line 110: segment.clip_path and os.path.exists(segment.clip_path)
clip_exists == Segment.clip_path /\ TempFile(running, "final", i) \in fs

\* lines 109-113: one iteration of the thumbnail loop
StepThumb ==
    /\ UNCHANGED pure
    /\ At("thumb")
    /\ IF clip_exists
       THEN \E out \in Bounded :
            IF out = "ok"
            THEN /\ fs' = fs \cup {OutFile(running, "thumb", i)}
                 /\ thumbnails' = Append(thumbnails, i)
                 /\ i' = i + 1
                 /\ pc' = IF i + 1 < NSegs THEN "thumb" ELSE "finish"
                 /\ resp' = NoResp
                 /\ UNCHANGED <<jobs, used, tasks, running, hung, written>>
            ELSE Raise(Failed("generate_thumbnail")) /\ UNCHANGED fs
       ELSE /\ i' = i + 1
            /\ pc' = IF i + 1 < NSegs THEN "thumb" ELSE "finish"
            /\ resp' = NoResp
            /\ UNCHANGED <<jobs, used, tasks, running, hung, thumbnails, fs, written>>

\* lines 114-122: job.thumbnails, rmtree(job_dir), completed_at, COMPLETED
StepFinish ==
    /\ UNCHANGED pure
    /\ At("finish")
    /\ fs' = rmtree(fs, "temp", running)
    /\ Update([Job EXCEPT !.thumbnails = thumbnails, !.completed_at = TRUE],
              "completed", 100, "Complete!")
    /\ pc' = "close"
    /\ resp' = NoResp
    /\ UNCHANGED <<used, tasks, running, i, hung, thumbnails>>

\* line 124: video_processor.close(), still inside the try block
StepClose ==
    /\ UNCHANGED pure
    /\ At("close")
    /\ \E out \in {"ok", "fail"} :
         IF out = "ok"
         THEN /\ running' = None
              /\ pc' = "idle"
              /\ i' = 0
              /\ thumbnails' = <<>>
              /\ resp' = NoResp
              /\ UNCHANGED <<jobs, used, tasks, hung, fs, written>>
         ELSE Raise(Failed("close")) /\ UNCHANGED fs

Pipeline ==
    \/ StepInit \/ StepSource \/ StepAudioBegin \/ StepTts \/ StepConcatAudio
    \/ StepVideoBegin \/ StepExtract \/ StepDims \/ StepAnalyze \/ StepCrop
    \/ StepDuration \/ StepStretch \/ StepFinalBegin \/ StepConcatClips
    \/ StepMerge \/ StepThumb \/ StepFinish \/ StepClose

Next ==
    \/ CreateJob
    \/ GetJobStatus
    \/ GetJobPreview
    \/ DownloadVideo
    \/ DeleteJob
    \/ StartTask
    \/ Pipeline

Spec == Init /\ [][Next]_vars

\* the event loop runs a started process_job to its next statement
FairSpec == Spec /\ WF_vars(Pipeline)

\* ---------------------------------------------------------- utils/parser.py
\* A str is the sequence of its characters.
DigitChars == <<"0", "1", "2", "3", "4", "5", "6", "7", "8", "9">>
Digits == {DigitChars[k] : k \in 1..10}
DigitValue(c) == (CHOOSE k \in 1..10 : DigitChars[k] = c) - 1
Whitespace == {" ", "\n"}

First(S) == CHOOSE k \in S : \A m \in S : k <= m
Final(S) == CHOOSE k \in S : \A m \in S : k >= m

\* the character of s at position k, "" outside of s
CharAt(s, k) == IF k \in 1..Len(s) THEN s[k] ELSE ""

\* the first position from p on whose character is not in chars
Skip(s, p, chars) == First({k \in p..(Len(s) + 1) : CharAt(s, k) \notin chars})

\* str.strip(chars) and str.strip()
strip_chars(s, chars) ==
    LET keep == {k \in 1..Len(s) : s[k] \notin chars} IN
    IF keep = {} THEN <<>> ELSE SubSeq(s, First(keep), Final(keep))

strip(s) == strip_chars(s, Whitespace)

\* str.split(sep)
RECURSIVE split(_, _)
split(s, sep) ==
    LET at == {k \in 1..Len(s) : s[k] = sep} IN
    IF at = {} THEN <<s>>
    ELSE <<SubSeq(s, 1, First(at) - 1)>> \o split(SubSeq(s, First(at) + 1, Len(s)), sep)

RECURSIVE decimal(_)
decimal(s) ==
    IF s = <<>> THEN 0
    ELSE 10 * decimal(SubSeq(s, 1, Len(s) - 1)) + DigitValue(s[Len(s)])

\* int(token): its value, or NaN where int() raises ValueError
int(token) ==
    LET t == strip(token) IN
    IF t # <<>> /\ \A k \in 1..Len(t) : t[k] \in Digits THEN decimal(t) ELSE NaN

\* parse_timestamp lines 12-14: the parts of the timestamp, each through int()
timestamp_parts(timestamp) ==
    LET parts == split(strip_chars(strip(timestamp), {"[", "]"}), ":") IN
    [k \in 1..Len(parts) |-> int(parts[k])]

\* \d{1,2}:\d{2} matches s from position p on with d leading digits
MinSec(s, p, d) ==
    /\ \A k \in p..(p + d - 1) : CharAt(s, k) \in Digits
    /\ CharAt(s, p + d) = ":"
    /\ CharAt(s, p + d + 1) \in Digits
    /\ CharAt(s, p + d + 2) \in Digits

\* (?::\d{2}) matches s right after position e
Sec(s, e) ==
    CharAt(s, e + 1) = ":" /\ CharAt(s, e + 2) \in Digits /\ CharAt(s, e + 3) \in Digits

\* \d{1,2}:\d{2}(?::\d{2})? from position p on: the positions where a match
\* can end, in the order the engine tries them (two digits before one, with
\* seconds before without)
TsEnds(s, p) ==
    LET ends(d) ==
          IF ~MinSec(s, p, d) THEN <<>>
          ELSE IF Sec(s, p + d + 2) THEN <<p + d + 5, p + d + 2>>
          ELSE <<p + d + 2>>
    IN ends(2) \o ends(1)

\* the ends of TsEnds after which the character is in chars
EndsBefore(s, p, chars) ==
    LET Test(e) == CharAt(s, e + 1) \in chars IN SelectSeq(TsEnds(s, p), Test)

\* a pattern that never matches
timestamp_match_Never(s) == <<>>

\* re.search(r'\[?(\d{1,2}:\d{2}(?::\d{2})?)\]?', s).group(1), <<>> for no match
timestamp_match(s) ==
    LET at == {p \in 1..Len(s) : TsEnds(s, p) # <<>>} IN
    IF at = {} THEN <<>>
    ELSE SubSeq(s, First(at), TsEnds(s, First(at))[1])

\* re.search(r'\[(\d{1,2}:\d{2}(?::\d{2})?)\]', s): start() and group(1),
\* start 0 for no match
bracket_match(s) ==
    LET at == {b \in 1..Len(s) : s[b] = "[" /\ EndsBefore(s, b + 1, {"]"}) # <<>>} IN
    IF at = {} THEN [start |-> 0, group |-> <<>>]
    ELSE [start |-> First(at),
          group |-> SubSeq(s, First(at) + 1, EndsBefore(s, First(at) + 1, {"]"})[1])]

\* r'\[[\d:]+\]\s*\(([^)]+)\)' matches s from position b on: the run of
\* digits and colons ends at r - 1, the parenthesis opens at q
DescAt(s, b) ==
    /\ s[b] = "["
    /\ LET r == Skip(s, b + 1, Digits \cup {":"}) IN
       /\ r > b + 1
       /\ CharAt(s, r) = "]"
       /\ LET q == Skip(s, r + 1, Whitespace) IN
          /\ CharAt(s, q) = "("
          /\ CharAt(s, q + 1) \notin {")", ""}
          /\ \E k \in (q + 2)..Len(s) : s[k] = ")"

\* re.search(r'\[[\d:]+\]\s*\(([^)]+)\)', s).group(1), <<>> for no match
desc_match(s) ==
    LET at == {b \in 1..Len(s) : DescAt(s, b)} IN
    IF at = {} THEN <<>>
    ELSE LET b == First(at)
             q == Skip(s, Skip(s, b + 1, Digits \cup {":"}) + 1, Whitespace)
         IN SubSeq(s, q + 1, First({k \in (q + 2)..Len(s) : s[k] = ")"}) - 1)

\* re.sub(r'^(\d{1,2}:\d{2}(?::\d{2})?)\s+', '', s)
strip_leading_timestamp(s) ==
    LET ends == EndsBefore(s, 1, Whitespace) IN
    IF ends = <<>> THEN s
    ELSE SubSeq(s, Skip(s, ends[1] + 1, Whitespace), Len(s))

ScriptSegment(text, timestamp, description) ==
    [text |-> text, timestamp |-> timestamp, description |-> description]

\* _parse_alternative_format, and lines 119-125 of parse_script_input: the
\* segment of the line in a list, or <<>> for (None, None, None)
parse_alternative_format(line) ==
    LET m == bracket_match(line) IN
    IF m.start = 0 THEN <<>>
    ELSE LET text == strip(strip_leading_timestamp(strip(SubSeq(line, 1, m.start - 1)))) IN
         IF text # <<>> /\ m.group # <<>>
         THEN <<ScriptSegment(text, m.group, strip(desc_match(line)))>>
         ELSE <<>>

\* parse_script_input lines 97-116: the pipe-delimited format
pipe_format(line) ==
    LET parts == split(line, "|") IN
    IF Len(parts) < 2 THEN <<>>
    ELSE LET text == strip(parts[1])
             timestamp_raw == strip(parts[2])
             description == IF Len(parts) > 2 THEN strip(parts[3]) ELSE <<>>
             timestamp == IF timestamp_match(timestamp_raw) # <<>>
                          THEN timestamp_match(timestamp_raw) ELSE timestamp_raw
         IN IF text # <<>> /\ timestamp # <<>>
            THEN <<ScriptSegment(text, timestamp, description)>>
            ELSE <<>>

\* the body of the loop of parse_script_input, lines 92-125
parse_line(raw) ==
    LET line == strip(raw) IN
    IF line = <<>> THEN <<>>
    ELSE IF pipe_format(line) # <<>> THEN pipe_format(line)
    ELSE parse_alternative_format(line)

\* the loop keeping only the segment of the last line that has one
RECURSIVE parse_lines_LastOnly(_)
parse_lines_LastOnly(lines) ==
    IF lines = <<>> THEN <<>>
    ELSE IF parse_lines_LastOnly(Tail(lines)) # <<>> THEN parse_lines_LastOnly(Tail(lines))
    ELSE parse_line(Head(lines))

\* the loop of parse_script_input, lines 88-127
RECURSIVE parse_lines(_)
parse_lines(lines) ==
    IF lines = <<>> THEN <<>>
    ELSE parse_line(Head(lines)) \o parse_lines(Tail(lines))

parse_script_input(script_input) == parse_lines(split(strip(script_input), "\n"))

\* str(n) for n >= 0
RECURSIVE str(_)
str(n) == IF n < 10 THEN <<DigitChars[n + 1]>> ELSE str(n \div 10) \o <<DigitChars[(n % 10) + 1]>>

\* f"{n:02d}" for n >= 0
Pad2(n) == IF n < 10 THEN <<"0">> \o str(n) ELSE str(n)

\* format_timestamp_for_ffmpeg with minutes = seconds // 60
format_timestamp_WholeMinutes(seconds) ==
    Pad2(seconds \div 3600) \o <<":">> \o Pad2(seconds \div 60) \o <<":">> \o Pad2(seconds % 60)

format_timestamp_for_ffmpeg(seconds) ==
    LET hours == seconds \div 3600
        minutes == (seconds % 3600) \div 60
        secs == seconds % 60
    IN Pad2(hours) \o <<":">> \o Pad2(minutes) \o <<":">> \o Pad2(secs)

\* ------------------------------------------------- services/cropper.py
OUTPUT_WIDTH == 720
OUTPUT_HEIGHT == 1280

Min(a, b) == IF a < b THEN a ELSE b
Max(a, b) == IF a > b THEN a ELSE b

\* calculate_crop_region without the clamp to the frame boundaries
calculate_crop_region_Unclamped(frame_width, frame_height, subject_center) ==
    LET wide == frame_height * OUTPUT_WIDTH <= frame_width * OUTPUT_HEIGHT
        crop_width == IF wide THEN (frame_height * OUTPUT_WIDTH) \div OUTPUT_HEIGHT
                      ELSE frame_width
        crop_height == IF wide THEN frame_height
                       ELSE (frame_width * OUTPUT_HEIGHT) \div OUTPUT_WIDTH
    IN <<subject_center[1] - crop_width \div 2, subject_center[2] - crop_height \div 2,
         crop_width, crop_height>>

\* calculate_crop_region always taking the width-limited branch
calculate_crop_region_FullWidth(frame_width, frame_height, subject_center) ==
    LET crop_width == frame_width
        crop_height == (frame_width * OUTPUT_HEIGHT) \div OUTPUT_WIDTH
        crop_x == subject_center[1] - crop_width \div 2
        crop_y == subject_center[2] - crop_height \div 2
    IN <<Max(0, Min(crop_x, frame_width - crop_width)),
         Max(0, Min(crop_y, frame_height - crop_height)),
         crop_width, crop_height>>

\* calculate_crop_region(frame_width, frame_height, subject_center, 720, 1280).
\* target_aspect is 720 / 1280 = 0.5625, which a float holds exactly, so
\* int(frame_height * target_aspect) is floor(720 * frame_height / 1280) and
\* int(frame_width / target_aspect) is floor(1280 * frame_width / 720).
calculate_crop_region(frame_width, frame_height, subject_center) ==
    LET wide == frame_height * OUTPUT_WIDTH <= frame_width * OUTPUT_HEIGHT
        crop_width == IF wide THEN (frame_height * OUTPUT_WIDTH) \div OUTPUT_HEIGHT
                      ELSE frame_width
        crop_height == IF wide THEN frame_height
                       ELSE (frame_width * OUTPUT_HEIGHT) \div OUTPUT_WIDTH
        crop_x == subject_center[1] - crop_width \div 2
        crop_y == subject_center[2] - crop_height \div 2
    IN <<Max(0, Min(crop_x, frame_width - crop_width)),
         Max(0, Min(crop_y, frame_height - crop_height)),
         crop_width, crop_height>>

\* line 95: np.linspace(0, frame_count - 1, sample_frames, dtype=int), for
\* sample_frames >= 2: sample k (from 0) is k * (frame_count - 1) /
\* (sample_frames - 1) made an integer.  From frame_count 1 on the values
\* are not negative and the conversion is the floor (on the frame counts
\* and sample counts used here the float product is on the same side of
\* every integer as the exact one); for frame_count = 0 they are negative
\* and the conversion rounds down or toward zero, with the numpy release.
linspace(frame_count, sample_frames, rounding) ==
    [k \in 1..sample_frames |->
        LET p == (k - 1) * (frame_count - 1)
            q == sample_frames - 1
        IN IF p >= 0 THEN p \div q
           ELSE IF rounding = "floor" THEN -((q - p - 1) \div q)
           ELSE -((-p) \div q)]

\* the outcomes of one sampled frame: cap.read() fails, no subject is
\* detected (center None, here <<>>), or a subject is detected at a point
Unreadable == [read |-> FALSE, center |-> <<>>]
Detected(center) == [read |-> TRUE, center |-> center]

RECURSIVE Sum(_, _)
Sum(points, axis) ==
    IF points = <<>> THEN 0 ELSE Head(points)[axis] + Sum(Tail(points), axis)

\* int(np.mean(...)) of count integers adding up to total: truncated toward 0
Truncated(total, count) ==
    IF total >= 0 THEN total \div count ELSE -((-total) \div count)

\* the centers appended by the loop of analyze_clip, lines 97-107
Centers(frames) ==
    LET Found(f) == f.read /\ f.center # <<>>
        found == SelectSeq(frames, Found)
    IN [k \in 1..Len(found) |-> found[k].center]

\* analyze_clip returning the first center instead of the mean
analyze_clip_FirstCenter(width, height, frames) ==
    IF Centers(frames) # <<>> THEN Centers(frames)[1]
    ELSE <<width \div 2, height \div 2>>

\* analyze_clip on a capture that opened, lines 90-118
analyze_clip(width, height, frames) ==
    LET centers == Centers(frames) IN
    IF centers # <<>>
    THEN <<Truncated(Sum(centers, 1), Len(centers)), Truncated(Sum(centers, 2), Len(centers))>>
    ELSE <<width \div 2, height \div 2>>

\* --------------------------------------------------- services/video.py
CLIP_DURATION == 15

\* a float as a fraction <<numerator, denominator>>, the denominator not 0
Less(a, b) ==
    IF (a[2] > 0) = (b[2] > 0) THEN a[1] * b[2] < b[1] * a[2]
    ELSE a[1] * b[2] > b[1] * a[2]
Same(a, b) == a[1] * b[2] = b[1] * a[2]
min(a, b) == IF Less(b, a) THEN b ELSE a
max(a, b) == IF Less(a, b) THEN b ELSE a

\* the speed ratio without its limits
speed_ratio_Unclamped(current_duration, target) ==
    <<current_duration, target>>

\* time_stretch lines 162-165, for target_duration # 0
speed_ratio(current_duration, target) ==
    max(<<1, 2>>, min(<<2, 1>>, <<current_duration, target>>))

\* a clip played at ratio times its speed lasting ratio times longer
stretched_Slower(current_duration, ratio) ==
    <<current_duration * ratio[1], ratio[2]>>

\* lines 168-182: setpts=(1 / speed_ratio)*PTS, the duration of the output
stretched(current_duration, ratio) ==
    <<current_duration * ratio[2], ratio[1]>>

\* ------------------------------------------- calls of the pure functions
MaxPieces == 5                    \* longest one-line script, in pieces
MaxShort == 3                     \* longest line of a two-line script, in pieces
MaxStamp == 5                     \* longest timestamp argument, in pieces
MaxDigits == 4                    \* longest run of digits in a timestamp argument
MaxSeconds == 3700                \* most seconds to format, but for LongSeconds
MaxFrame == 6                     \* largest frame width and height
MaxSamples == 3                   \* frames analyze_clip samples
MaxTarget == 8                    \* longest narration, in seconds
MaxFrameCount == 12               \* most frames of a clip
MaxSampleFrames == 10             \* most frames to sample (the code's default)

\* the pieces arguments are made of
LinePieces ==
    {<<"a">>, <<" ">>, <<"|">>, <<"(", "b", ")">>,
     <<"0", "1", ":", "0", "5">>, <<"1", ":", "0", "2", ":", "0", "3">>,
     <<"[", "0", "1", ":", "0", "5", "]">>}
ShortPieces == {<<"a">>, <<" ">>, <<"|">>, <<"[", "0", "1", ":", "0", "5", "]">>}
TimestampPieces ==
    {<<"1">>, <<"0", "5">>, <<"7", "5">>, <<":">>, <<"[">>, <<"]">>, <<" ">>, <<"a">>}

RECURSIVE Flatten(_)
Flatten(ps) == IF ps = <<>> THEN <<>> ELSE Head(ps) \o Flatten(Tail(ps))

\* the strings of at most n pieces
Texts(pieces, n) == {Flatten(ps) : ps \in UNION {[1..m -> pieces] : m \in 0..n}}

\* script_input: one line, or two short lines
Scripts ==
    Texts(LinePieces, MaxPieces)
        \cup {a \o <<"\n">> \o b : a \in Texts(ShortPieces, MaxShort),
                                    b \in Texts(ShortPieces, MaxShort)}

\* timestamp: a string whose runs of digits have at most MaxDigits digits
TimestampInputs ==
    {t \in Texts(TimestampPieces, MaxStamp) :
        \A k \in 1..(Len(t) - MaxDigits) : \E m \in k..(k + MaxDigits) : t[m] \notin Digits}

\* seconds around a hundred hours, where the hours take three digits
LongSeconds == {359999, 360000, 360061}

\* frame sizes and subject points, in and around the frame
CropInputs ==
    [frame_width : 1..MaxFrame, frame_height : 1..MaxFrame,
     subject_center : (-1..(MaxFrame + 1)) \X (-1..(MaxFrame + 1))]

\* a capture, opened or not, of one of two sizes and its sampled frames
FrameOutcomes ==
    {Unreadable, Detected(<<>>), Detected(<<0, 0>>), Detected(<<1, 2>>), Detected(<<4, 3>>),
     Detected(<<-1, 0>>)}
ClipInputs ==
    [opened : BOOLEAN, width : {4}, height : {3, 7}, frames : [1..MaxSamples -> FrameOutcomes]]

\* the frame count a capture reports, the samples asked for, and how the
\* numpy at hand makes a negative float an integer
SampleInputs ==
    [frame_count : 0..MaxFrameCount, sample_frames : 2..MaxSampleFrames,
     rounding : {"floor", "truncate"}]

\* the duration ffprobe reports for the cropped clip, and the narration's
StretchInputs ==
    [current_duration : -1..CLIP_DURATION, target_duration : -1..MaxTarget]

service == <<jobs, used, tasks, running, pc, i, hung, thumbnails, fs, written, resp>>

PureInit ==
    /\ Service
    /\ ret = NoRet
    /\ \/ fn = "parse_script_input" /\ arg \in Scripts
       \/ fn = "parse_timestamp" /\ arg \in TimestampInputs
       \/ fn = "format_timestamp_for_ffmpeg" /\ arg \in (0..MaxSeconds) \cup LongSeconds
       \/ fn = "calculate_crop_region" /\ arg \in CropInputs
       \/ fn = "analyze_clip" /\ arg \in ClipInputs
       \/ fn = "time_stretch" /\ arg \in StretchInputs
       \/ fn = "sample_indices" /\ arg \in SampleInputs

Returned(value) == [state |-> "returned", value |-> value]
Raised(e) == [state |-> "raised", value |-> e]

ParseScriptInput ==
    /\ fn = "parse_script_input" /\ ret.state = "pending"
    /\ ret' = Returned(parse_script_input(arg))
    /\ UNCHANGED <<fn, arg, service>>

ParseTimestamp ==
    /\ fn = "parse_timestamp" /\ ret.state = "pending"
    /\ ret' = IF parse_timestamp_raises(timestamp_parts(arg)) THEN Raised("ValueError")
              ELSE Returned(parse_timestamp(timestamp_parts(arg)))
    /\ UNCHANGED <<fn, arg, service>>

FormatTimestamp ==
    /\ fn = "format_timestamp_for_ffmpeg" /\ ret.state = "pending"
    /\ ret' = Returned(format_timestamp_for_ffmpeg(arg))
    /\ UNCHANGED <<fn, arg, service>>

CalculateCropRegion ==
    /\ fn = "calculate_crop_region" /\ ret.state = "pending"
    /\ ret' = Returned(calculate_crop_region(arg.frame_width, arg.frame_height,
                                             arg.subject_center))
    /\ UNCHANGED <<fn, arg, service>>

\* analyze_clip, lines 86-88 included
AnalyzeClip ==
    /\ fn = "analyze_clip" /\ ret.state = "pending"
    /\ ret' = IF ~arg.opened THEN Raised("Cannot open video")
              ELSE Returned(analyze_clip(arg.width, arg.height, arg.frames))
    /\ UNCHANGED <<fn, arg, service>>

\* time_stretch lines 157-186 with ffmpeg succeeding: the speed ratio used
\* and the duration of the stretched clip
TimeStretch ==
    /\ fn = "time_stretch" /\ ret.state = "pending"
    /\ ret' = IF arg.current_duration <= 0 THEN Raised("Invalid clip duration")
              ELSE IF arg.target_duration = 0 THEN Raised("ZeroDivisionError")
              ELSE LET ratio == speed_ratio(arg.current_duration, arg.target_duration) IN
                   Returned([speed_ratio |-> ratio,
                             duration |-> stretched(arg.current_duration, ratio)])
    /\ UNCHANGED <<fn, arg, service>>

\* analyze_clip lines 90-100: the indices passed to cap.set, in order
SampleIndices ==
    /\ fn = "sample_indices" /\ ret.state = "pending"
    /\ ret' = Returned(linspace(arg.frame_count, arg.sample_frames, arg.rounding))
    /\ UNCHANGED <<fn, arg, service>>

PureNext ==
    \/ ParseScriptInput \/ ParseTimestamp \/ FormatTimestamp
    \/ CalculateCropRegion \/ AnalyzeClip \/ TimeStretch \/ SampleIndices

PureSpec == PureInit /\ [][PureNext]_vars

\* ------------------------------------------------------------------ claims
Registered == DOMAIN jobs
Kept == DOMAIN jobs \cap DOMAIN jobs'
FilesOf(files, root, id) == {p \in files : p[1] = root /\ p[2] = id}

\* C1: a job created by create_job starts PENDING with progress 0, and every
\* later change of its status goes to the immediate successor in the order
\* PENDING, UPLOADING, GENERATING_AUDIO, PROCESSING_VIDEO, FINALIZING,
\* COMPLETED, or to FAILED from a non-terminal status.
C1_StatusFollowsTheOrder ==
    [][/\ \A id \in DOMAIN jobs' \ DOMAIN jobs :
            jobs'[id].status = "pending" /\ jobs'[id].progress = 0
       /\ \A id \in Kept :
            jobs'[id].status # jobs[id].status =>
                \/ /\ jobs'[id].status # "failed"
                   /\ Rank(jobs'[id].status) = Rank(jobs[id].status) + 1
                \/ /\ jobs'[id].status = "failed"
                   /\ jobs[id].status \notin Terminal]_vars

\* C2: once a job's status is COMPLETED or FAILED, no later step changes its
\* status, progress or error.
C2_TerminalIsFinal ==
    [][\A id \in Kept :
          jobs[id].status \in Terminal =>
              /\ jobs'[id].status = jobs[id].status
              /\ jobs'[id].progress = jobs[id].progress
              /\ jobs'[id].error = jobs[id].error]_vars

\* C3: the progress values written to a job never decrease and always lie
\* in 0..100, whatever the number of segments.
C3_ProgressMonotone ==
    [][\A id \in DOMAIN jobs' :
          /\ jobs'[id].progress \in 0..100
          /\ id \in DOMAIN jobs => jobs'[id].progress >= jobs[id].progress]_vars

\* a job of at least two segments has run through both loops to 100
C3_Witness ==
    \E id \in Registered :
        /\ Len(jobs[id].segments) >= 2
        /\ jobs[id].progress = 100

StatusRead == resp.op = "status" /\ resp.code = 200
ReadTriple == Triple(resp.body.status, resp.body.progress, resp.body.message)

\* C4 as stated: every result of get_job_status is the initial triple or a
\* triple written together by one update_job_progress call, and none shows
\* COMPLETED with progress below 100.
C4_ReadsAreWrittenTriples ==
    StatusRead =>
        /\ ReadTriple = written[resp.id]
        /\ resp.body.status = "completed" => resp.body.progress = 100

\* C4 amended: every result of get_job_status is the initial triple, a triple
\* written together by one update_job_progress call, or, for a failed job,
\* FAILED and the failure message with the progress of the last such call;
\* none shows COMPLETED with progress below 100.
C4_ReadsAreConsistent ==
    StatusRead =>
        /\ resp.body.status # "failed" => ReadTriple = written[resp.id]
        /\ resp.body.status = "failed" =>
              /\ resp.body.progress = written[resp.id].progress
              /\ resp.body.message = "Processing failed: " \o resp.body.error
        /\ resp.body.status = "completed" => resp.body.progress = 100

\* a status request answered for a completed job
C4_Witness == StatusRead /\ resp.body.status = "completed"

\* the order of the statements of process_job: Pos grows with every step
Pos ==
    CASE pc = "idle" -> 0
      [] pc = "init" -> 1
      [] pc = "source" -> 2
      [] pc = "audio_begin" -> 3
      [] pc = "tts" -> 10 + i
      [] pc = "concat_audio" -> 98
      [] pc = "video_begin" -> 99
      [] pc = "extract" -> 100 + 10 * i
      [] pc = "dims" -> 101 + 10 * i
      [] pc = "analyze" -> 102 + 10 * i
      [] pc = "crop" -> 103 + 10 * i
      [] pc = "duration" -> 104 + 10 * i
      [] pc = "stretch" -> 105 + 10 * i
      [] pc = "final_begin" -> 1000
      [] pc = "concat_clips" -> 1001
      [] pc = "merge" -> 1002
      [] pc = "thumb" -> 1010 + i
      [] pc = "finish" -> 2000
      [] pc = "close" -> 2001

C6_PipelineTerminates ==
    \A id \in JobIds :
        (running = id) ~> (id \in Registered /\ jobs[id].status \in Terminal)

\* C7: whenever a job's status is COMPLETED or FAILED its temporary
\* directory TEMP_DIR/<job id> has been removed.
C7_TempDirRemovedAtTerminal ==
    \A id \in Registered :
        jobs[id].status \in Terminal => FilesOf(fs, "temp", id) = {}

\* C8: preview and download answer 200 only for a job whose status is
\* COMPLETED, 400 with the current status for a known job in any other
\* status, and status, preview and download answer 404 for an unknown id.
C8_ArtifactsOnlyWhenCompleted ==
    /\ resp.op \in {"preview", "download"} =>
          IF resp.id \notin Registered THEN resp.code = 404
          ELSE IF jobs[resp.id].status = "completed" THEN resp.code = 200
          ELSE /\ resp.code = 400
               /\ resp.detail = "Job not complete. Current status: " \o jobs[resp.id].status
    /\ resp.op = "status" =>
          (resp.code = 404 <=> resp.id \notin Registered)

\* a download refused for a failed job
C8_Witness ==
    /\ resp.op = "download" /\ resp.code = 400
    /\ jobs[resp.id].status = "failed"

\* C9: a create_job request rejected with 400 leaves the registry unchanged
\* and schedules nothing; every registered job has at least one segment and
\* a voice of the registry, and no job fails on an unknown voice.
C9_RejectedAtSubmission ==
    /\ [](\A id \in Registered :
            /\ Len(jobs[id].segments) >= 1
            /\ jobs[id].voice \in VOICE_MODELS \cap AVAILABLE_VOICES
            /\ jobs[id].error # "Unknown voice")
    /\ [][(resp'.op = "create" /\ resp'.code = 400) =>
            UNCHANGED <<jobs, tasks, used, fs>>]_vars

\* a script of no segments rejected while another job is registered
C9_Witness ==
    /\ resp.op = "create" /\ resp.code = 400
    /\ resp.detail = "No valid script segments found"
    /\ Registered # {}

Deleted(id) == resp' = Response("delete", id, 200, "Job deleted")

\* C10: delete_job on a known id removes the record and both directories,
\* after which every handler answers 404 for that id; on an unknown id it
\* answers 404 and changes nothing; nothing else removes a record or an
\* output artifact.
C10_OnlyDeleteRemoves ==
    /\ [](resp.op \in {"status", "preview", "download", "delete"} /\ resp.id \notin Registered
            => resp.code = 404 \/ resp = Response("delete", resp.id, 200, "Job deleted"))
    /\ [][/\ \A id \in Registered :
               Deleted(id) =>
                   /\ id \notin DOMAIN jobs'
                   /\ FilesOf(fs', "temp", id) = {} /\ FilesOf(fs', "output", id) = {}
          /\ \A id \in used \ Registered :
               /\ id \notin DOMAIN jobs'
               /\ FilesOf(fs', "temp", id) = {} /\ FilesOf(fs', "output", id) = {}
          /\ (resp'.op = "delete" /\ resp'.code = 404) =>
               (resp'.id \notin Registered /\ UNCHANGED <<jobs, fs, tasks, used>>)
          /\ \A id \in Registered :
               (id \notin DOMAIN jobs' \/ ~(FilesOf(fs, "output", id) \subseteq fs'))
                   => Deleted(id)]_vars

\* a request for a deleted job, whose background task is still to start
C10_Witness ==
    /\ resp.op = "preview" /\ resp.code = 404
    /\ resp.id \in tasks

MidPipeline == {"uploading", "generating_audio", "processing_video", "finalizing"}

\* C11: the API never blocks on a job: while a job is mid-pipeline (its
\* status UPLOADING, GENERATING_AUDIO, PROCESSING_VIDEO or FINALIZING), that
\* is between two pipeline steps, a status request can be served.
C11_StatusServedMidPipeline ==
    \A id \in Registered :
        jobs[id].status \in MidPipeline => ENABLED GetJobStatus

HasAudio(seg) == seg.audio_duration # NoDuration /\ seg.audio_path
ClipStage == {"extract", "dims", "analyze", "crop", "duration", "stretch"}
Ordinals(n) == [k \in 1..n |-> k - 1]

\* C12: within one job the steps occur in a fixed order: narration for the
\* segments in order, the narration track, the clips for the segments in
\* order, their concatenation, the mux, the thumbnails, then COMPLETED; the
\* stretch target of segment i is the audio duration recorded for segment
\* i, which is set when that clip is processed.
C12_StepsInFixedOrder ==
    /\ [](running # None =>
          LET segs == Job.segments
              n == Len(segs) IN
          /\ pc = "tts" =>
                /\ Job.status = "generating_audio" /\ ~Job.audio_path
                /\ \A k \in 1..n : (HasAudio(segs[k]) <=> k <= i) /\ ~segs[k].clip_path
          /\ pc = "concat_audio" =>
                /\ ~Job.audio_path
                /\ \A k \in 1..n : HasAudio(segs[k]) /\ ~segs[k].clip_path
          /\ pc \in ClipStage =>
                /\ Job.status = "processing_video"
                /\ Job.audio_path /\ ~Job.video_path
                /\ \A k \in 1..n : HasAudio(segs[k]) /\ (segs[k].clip_path <=> k <= i)
                /\ target_duration = segs[i + 1].audio_duration
                /\ target_duration \in Durations
          /\ pc \in {"concat_clips", "merge"} =>
                /\ ~Job.video_path /\ Job.thumbnails = <<>>
                /\ \A k \in 1..n : segs[k].clip_path
                /\ pc = "merge" <=> TempFile(running, "concatenated", 0) \in fs
          /\ pc \in {"thumb", "finish"} =>
                /\ Job.video_path /\ Job.audio_path /\ Job.status = "finalizing"
                /\ thumbnails = Ordinals(IF pc = "thumb" THEN i ELSE n)
          /\ Job.status = "completed" =>
                /\ pc = "close" /\ Job.video_path
                /\ Job.thumbnails = Ordinals(n))
    /\ [][(running # None /\ running' = running) => (hung' \/ Pos' > Pos)]_vars

\* the clip of the second segment is about to be stretched to a duration
\* that differs from the first segment's
C12_Witness ==
    /\ running # None /\ pc = "duration" /\ i = 1
    /\ target_duration # Job.segments[1].audio_duration

\* the narration of a segment has just been synthesized
Narrated == running # None /\ pc = "tts" /\ running' = running /\ i' = i + 1
\* a clip has just been processed
Clipped == running # None /\ pc = "stretch" /\ running' = running /\ i' = i + 1

\* C13 as stated: audio generation spans progress 20 to 40: after the k-th
\* of n narrations the progress is 20 + floor(20*k/n), every progress written
\* while GENERATING_AUDIO lies in 20..40, and it is 40 once the narration
\* track is concatenated.
C13_AudioSpans20To40 ==
    /\ [](\A id \in Registered :
            jobs[id].status = "generating_audio" => jobs[id].progress \in 20..40)
    /\ [](running # None /\ pc = "video_begin" => Job.progress = 40)
    /\ [][Narrated => jobs'[running].progress = 20 + (20 * i') \div NSegs]_vars

\* C13 amended: audio generation spans progress 25 to 40: it is 25 when
\* GENERATING_AUDIO is entered, 25 + floor(15*k/n) after the k-th of n
\* narrations, every progress written while GENERATING_AUDIO lies in 25..40,
\* and it is 40 once the narration track is concatenated.
C13_AudioSpans25To40 ==
    /\ [](\A id \in Registered :
            jobs[id].status = "generating_audio" => jobs[id].progress \in 25..40)
    /\ [](running # None /\ pc = "tts" /\ i = 0 => Job.progress = 25)
    /\ [](running # None /\ pc = "video_begin" => Job.progress = 40)
    /\ [][Narrated => jobs'[running].progress = 25 + (15 * i') \div NSegs]_vars

\* the first of two narrations is done: 32, where 20 + floor(20/2) is 30
C13_Witness ==
    /\ running # None /\ pc = "tts" /\ i = 1 /\ NSegs = 2
    /\ Job.status = "generating_audio" /\ Job.progress = 32

\* C14: video processing spans progress 45 to 80: it is 45 when clip
\* processing starts, 45 + floor(35*k/n) after the k-th of n clips, 80 after
\* the last, and every progress written while PROCESSING_VIDEO lies in 45..80.
C14_VideoSpans45To80 ==
    /\ [](\A id \in Registered :
            jobs[id].status = "processing_video" => jobs[id].progress \in 45..80)
    /\ [](running # None /\ pc = "extract" /\ i = 0 => Job.progress = 45)
    /\ [](running # None /\ pc = "final_begin" => Job.progress = 80)
    /\ [][Clipped => jobs'[running].progress = 45 + (35 * i') \div NSegs]_vars

\* the first of two clips is done: 45 + floor(35/2) = 62
C14_Witness ==
    /\ running # None /\ pc = "extract" /\ i = 1 /\ NSegs = 2
    /\ Job.status = "processing_video" /\ Job.progress = 62

\* a call of f has returned or raised
Called(f) == fn = f /\ ret.state # "pending"
Contains(s, c) == \E k \in 1..Len(s) : s[k] = c
AllDigits(s) == s # <<>> /\ \A k \in 1..Len(s) : s[k] \in Digits

\* a token of the form MM:SS or HH:MM:SS
WellFormed(t) ==
    LET p == split(t, ":") IN
    /\ Len(p) \in {2, 3}
    /\ AllDigits(p[1]) /\ Len(p[1]) \in {1, 2}
    /\ \A k \in 2..Len(p) : AllDigits(p[k]) /\ Len(p[k]) = 2

\* such a token in square brackets
InBrackets(t) ==
    Len(t) > 2 /\ t[1] = "[" /\ t[Len(t)] = "]" /\ WellFormed(SubSeq(t, 2, Len(t) - 1))

Fields == split(strip(arg), "|")

\* the argument is one line text|timestamp or text|timestamp|description
PipeLine ==
    /\ ~Contains(arg, "\n")
    /\ Len(Fields) \in {2, 3}
    /\ strip(Fields[1]) # <<>>
    /\ WellFormed(strip(Fields[2])) \/ InBrackets(strip(Fields[2]))

\* C15: for a pipe-delimited line text|timestamp|description with non-empty
\* text and a timestamp MM:SS or HH:MM:SS, bare or in square brackets,
\* parse_script_input yields exactly one segment: text is field 0 trimmed,
\* timestamp is field 1 without the brackets, description is field 2 trimmed
\* (empty when omitted); 01:05 converts to 65 seconds.
C15_PipeLineYieldsItsFields ==
    (Called("parse_script_input") /\ PipeLine) =>
        /\ ret.state = "returned"
        /\ ret.value = <<[text |-> strip(Fields[1]),
                          timestamp |-> strip_chars(strip(Fields[2]), {"[", "]"}),
                          description |-> IF Len(Fields) = 3 THEN strip(Fields[3]) ELSE <<>>]>>
        /\ ~parse_timestamp_raises(timestamp_parts(ret.value[1].timestamp))
        /\ ret.value[1].timestamp = <<"0", "1", ":", "0", "5">> =>
              parse_timestamp(timestamp_parts(ret.value[1].timestamp)) = 65

\* a line of three fields with a bracketed timestamp has been parsed
C15_Witness ==
    /\ Called("parse_script_input") /\ PipeLine
    /\ Len(Fields) = 3 /\ strip(Fields[3]) # <<>>
    /\ InBrackets(strip(Fields[2]))

\* the first bracketed timestamp of the line: where it opens (0: there is
\* none) and where it closes
BracketStart(line) ==
    LET at == {b \in 1..Len(line) :
                 \E e \in (b + 1)..Len(line) : InBrackets(SubSeq(line, b, e))} IN
    IF at = {} THEN 0 ELSE First(at)
BracketEnd(line) ==
    First({e \in (BracketStart(line) + 1)..Len(line) : line[e] = "]"})

\* everything before the bracket, without a leading bare timestamp, trimmed
TextBefore(line) ==
    LET before == strip(SubSeq(line, 1, BracketStart(line) - 1))
        lead == SubSeq(before, 1, Skip(before, 1, {"a", "(", ")", "[", "]", "|", ":"} \cup Digits) - 1)
    IN IF WellFormed(lead) THEN strip(SubSeq(before, Len(lead) + 1, Len(before)))
       ELSE before

\* the parenthesized text immediately following the bracket, if there is one
Following(line) ==
    LET q == Skip(line, BracketEnd(line) + 1, Whitespace)
        close == {k \in (q + 1)..Len(line) : line[k] = ")"}
    IN IF CharAt(line, q) = "(" /\ close # {}
       THEN strip(SubSeq(line, q + 1, First(close) - 1))
       ELSE <<>>

\* C16: a line with no pipe character that contains a bracketed timestamp
\* preceded by non-empty text yields exactly one segment: timestamp is the
\* bracket's content, text is everything before the bracket without a
\* leading bare timestamp, trimmed, and description is the parenthesized
\* text immediately following the bracket (empty if there is none); a line
\* with no bracketed timestamp, or with nothing but a leading timestamp
\* before the bracket, yields no segment.
C16_InlineBracketLine ==
    (Called("parse_script_input") /\ ~Contains(arg, "|") /\ ~Contains(arg, "\n")) =>
        LET line == strip(arg) IN
        IF BracketStart(line) = 0 \/ TextBefore(line) = <<>>
        THEN ret.value = <<>>
        ELSE ret.value = <<[text |-> TextBefore(line),
                            timestamp |-> SubSeq(line, BracketStart(line) + 1, BracketEnd(line) - 1),
                            description |-> Following(line)]>>

\* the positions of the line breaks of the argument
Breaks == {k \in 1..Len(arg) : arg[k] = "\n"}
NonBlank == {k \in 1..Len(split(arg, "\n")) : strip(split(arg, "\n")[k]) # <<>>}

\* C17: parse_script_input never raises; every non-blank line contributes
\* zero or one segment independently of the other lines, in the order of
\* the lines, whichever formats they are in: the result for a text is the
\* result for what precedes a line break followed by the result for what
\* follows it, and it is empty when no line parses.
C17_LinesParseIndependently ==
    Called("parse_script_input") =>
        /\ ret.state = "returned"
        /\ Len(ret.value) <= Cardinality(NonBlank)
        /\ \A k \in Breaks :
              ret.value = parse_script_input(SubSeq(arg, 1, k - 1))
                            \o parse_script_input(SubSeq(arg, k + 1, Len(arg)))

\* a pipe-delimited line followed by an inline-bracket line: two segments
C17_Witness ==
    /\ Called("parse_script_input") /\ Cardinality(Breaks) = 1
    /\ Len(ret.value) = 2
    /\ Contains(split(arg, "\n")[1], "|") /\ ~Contains(split(arg, "\n")[2], "|")

\* C18: a line containing at least one '|' never produces a segment through
\* the inline-bracket rule: it yields its pipe-format segment or is skipped.
C18_PipeLinesNeverInline ==
    (Called("parse_script_input") /\ Contains(arg, "|") /\ ~Contains(arg, "\n")) =>
        ret.value = pipe_format(strip(arg))

\* C19: every segment returned by parse_script_input carries a timestamp
\* that parse_timestamp converts to seconds without error, a pipe-delimited
\* line whose second field holds no MM:SS or HH:MM:SS token being skipped.
C19_SegmentsCarryValidTimestamps ==
    Called("parse_script_input") =>
        \A k \in 1..Len(ret.value) :
            ~parse_timestamp_raises(timestamp_parts(ret.value[k].timestamp))

Colons == Cardinality({k \in 1..Len(arg) : arg[k] = ":"})
Tokens == split(strip_chars(strip(arg), {"[", "]"}), ":")

\* C20: parse_timestamp maps MM:SS to minutes*60+seconds and HH:MM:SS to
\* hours*3600+minutes*60+seconds, surrounding square brackets ignored, and
\* fails for any other number of colon-separated tokens.
C20_ParseTimestamp ==
    Called("parse_timestamp") =>
        /\ Colons \notin {1, 2} => ret.state = "raised"
        /\ (Colons = 1 /\ \A k \in 1..2 : AllDigits(strip(Tokens[k]))) =>
              /\ ret.state = "returned"
              /\ ret.value = decimal(strip(Tokens[1])) * 60 + decimal(strip(Tokens[2]))
        /\ (Colons = 2 /\ \A k \in 1..3 : AllDigits(strip(Tokens[k]))) =>
              /\ ret.state = "returned"
              /\ ret.value = decimal(strip(Tokens[1])) * 3600
                               + decimal(strip(Tokens[2])) * 60 + decimal(strip(Tokens[3]))

\* an HH:MM:SS timestamp has been converted: 1:05:05 is 3905 seconds
C20_Witness ==
    Called("parse_timestamp") /\ ret.state = "returned" /\ Colons = 2 /\ ret.value = 3905

\* the seconds a string HH:MM:SS denotes
Denoted(t) ==
    decimal(split(t, ":")[1]) * 3600 + decimal(split(t, ":")[2]) * 60 + decimal(split(t, ":")[3])

\* zero-padded HH:MM:SS with minutes and seconds in 0..59
Normalized(t) ==
    LET p == split(t, ":") IN
    /\ Len(p) = 3
    /\ \A k \in 1..3 : AllDigits(p[k])
    /\ Len(p[1]) >= 2 /\ (Len(p[1]) > 2 => p[1][1] # "0")
    /\ Len(p[2]) = 2 /\ decimal(p[2]) \in 0..59
    /\ Len(p[3]) = 2 /\ decimal(p[3]) \in 0..59

\* C21: for every well-formed MM:SS or HH:MM:SS input s,
\* format_timestamp_for_ffmpeg(parse_timestamp(s)) is the normalized form of
\* s, zero-padded HH:MM:SS with minutes and seconds in 0..59 denoting the
\* same number of seconds; and parse_timestamp(format_timestamp_for_ffmpeg(n))
\* is n for every n >= 0.
C21_TimestampRoundTrip ==
    /\ (Called("parse_timestamp") /\ WellFormed(arg)) =>
          /\ ret.state = "returned"
          /\ Normalized(format_timestamp_for_ffmpeg(ret.value))
          /\ Denoted(format_timestamp_for_ffmpeg(ret.value)) = ret.value
          /\ Normalized(arg) => format_timestamp_for_ffmpeg(ret.value) = arg
    /\ Called("format_timestamp_for_ffmpeg") =>
          /\ Normalized(ret.value)
          /\ ~parse_timestamp_raises(timestamp_parts(ret.value))
          /\ parse_timestamp(timestamp_parts(ret.value)) = arg

\* 75:05, seventy-five minutes, has been parsed: its normal form is 01:15:05
C21_Witness ==
    /\ Called("parse_timestamp") /\ WellFormed(arg)
    /\ arg = <<"7", "5", ":", "0", "5">>
    /\ format_timestamp_for_ffmpeg(ret.value) = <<"0", "1", ":", "1", "5", ":", "0", "5">>

\* C22: for every frame size and every subject point, outside the frame
\* included, calculate_crop_region with target 720x1280 returns (x, y, w, h)
\* with 0 <= x, 0 <= y, x + w <= frame_w, y + h <= frame_h, and w / h equal
\* to 9 / 16 within one pixel of rounding.
C22_CropInsideFrame ==
    Called("calculate_crop_region") =>
        LET x == ret.value[1]
            y == ret.value[2]
            w == ret.value[3]
            h == ret.value[4]
        IN /\ ret.state = "returned"
           /\ 0 <= x /\ 0 <= y
           /\ x + w <= arg.frame_width /\ y + h <= arg.frame_height
           /\ \/ 9 * h - 16 < 16 * w /\ 16 * w <= 9 * h
              \/ 16 * w - 9 < 9 * h /\ 9 * h <= 16 * w

\* a subject right of and below the frame: the region is pushed back inside
C22_Witness ==
    /\ Called("calculate_crop_region")
    /\ arg.subject_center[1] > arg.frame_width /\ arg.subject_center[2] > arg.frame_height
    /\ ret.value[3] >= 2 /\ ret.value[3] < arg.frame_width
    /\ ret.value[1] = arg.frame_width - ret.value[3]

StretchCall == Called("time_stretch") /\ arg.current_duration > 0
Quotient == <<arg.current_duration, arg.target_duration>>
InRange(r) == ~Less(r, <<1, 2>>) /\ ~Less(<<2, 1>>, r)

\* C23: for all current_duration > 0 and target_duration > 0 the speed ratio
\* used by time_stretch lies in [0.5, 2.0], and equals
\* current_duration / target_duration whenever that is within [0.5, 2.0].
C23_SpeedRatioClamped ==
    (StretchCall /\ arg.target_duration > 0) =>
        /\ ret.state = "returned"
        /\ InRange(ret.value.speed_ratio)
        /\ InRange(Quotient) => Same(ret.value.speed_ratio, Quotient)

\* a clip more than twice as long as its narration: the ratio is held at 2
C23_Witness ==
    /\ StretchCall /\ arg.target_duration > 0
    /\ ~InRange(Quotient) /\ Same(ret.value.speed_ratio, <<2, 1>>)

\* C24: computing the speed ratio with target_duration <= 0, zero or
\* negative, fails with an error instead of producing a ratio.
C24_NonPositiveTargetFails ==
    (StretchCall /\ arg.target_duration <= 0) => ret.state = "raised"

\* C25 as stated: the final clip of a segment lasts as long as the
\* segment's narration, given a clip of at most 15 seconds.
C25_ClipMatchesNarration ==
    (StretchCall /\ arg.target_duration > 0 /\ arg.current_duration <= CLIP_DURATION) =>
        Same(ret.value.duration, <<arg.target_duration, 1>>)

\* C25 amended: the final clip lasts as long as the narration when the
\* cropped clip lasts between half and twice the narration; a longer clip
\* is played at twice its speed and lasts half as long as it did, a shorter
\* one at half its speed and lasts twice as long.
C25_ClipMatchesNarrationInRange ==
    (StretchCall /\ arg.target_duration > 0 /\ arg.current_duration <= CLIP_DURATION) =>
        /\ ret.state = "returned"
        /\ InRange(Quotient) => Same(ret.value.duration, <<arg.target_duration, 1>>)
        /\ Less(<<2, 1>>, Quotient) => Same(ret.value.duration, <<arg.current_duration, 2>>)
        /\ Less(Quotient, <<1, 2>>) => Same(ret.value.duration, <<2 * arg.current_duration, 1>>)

\* a 15 second clip for a 3 second narration leaves 7.5 seconds of video
C25_Witness ==
    /\ StretchCall /\ arg.current_duration = CLIP_DURATION /\ arg.target_duration = 3
    /\ Same(ret.value.duration, <<15, 2>>)

\* C26: analyze_clip never fails because no subject was detected: with at
\* least one point it returns the per-axis mean of the points, truncated;
\* with none, also when no frame can be read, the center of the frame.
C26_AnalyzeClipFallsBack ==
    (Called("analyze_clip") /\ arg.opened) =>
        LET at == {k \in 1..Len(arg.frames) : arg.frames[k].read /\ arg.frames[k].center # <<>>}
            total(axis) == Sum([k \in 1..Len(arg.frames) |->
                                  IF k \in at THEN arg.frames[k].center ELSE <<0, 0>>], axis)
        IN /\ ret.state = "returned"
           /\ at # {} => \A axis \in 1..2 :
                             LET mean == ret.value[axis] IN
                             IF total(axis) >= 0
                             THEN mean * Cardinality(at) <= total(axis)
                                  /\ total(axis) < (mean + 1) * Cardinality(at)
                             ELSE mean * Cardinality(at) >= total(axis)
                                  /\ total(axis) > (mean - 1) * Cardinality(at)
           /\ at = {} => ret.value = <<arg.width \div 2, arg.height \div 2>>

\* an unreadable frame, then subjects at (1, 2) and (4, 3): the mean is (2, 2)
C26_Witness ==
    /\ Called("analyze_clip") /\ arg.opened
    /\ arg.frames = <<Unreadable, Detected(<<1, 2>>), Detected(<<4, 3>>)>>
    /\ ret.value = <<2, 2>>

\* C27: a failed job stays in the registry, unchanged and answered with 200
\* by get_job_status, until delete_job removes it; a status read that
\* reports FAILED carries the error in that same read, and a read that
\* reports any other status carries no error.
C27_FailedJobsStayQueryable ==
    /\ [](StatusRead => (resp.body.status = "failed" <=> resp.body.error # None))
    /\ [](resp.op = "status" /\ resp.id \in Registered /\ jobs[resp.id].status = "failed"
            => /\ resp.code = 200
               /\ resp.body.status = "failed"
               /\ resp.body.error = jobs[resp.id].error)
    /\ [][\A id \in Registered :
            jobs[id].status = "failed" =>
                \/ id \in DOMAIN jobs' /\ jobs'[id] = jobs[id]
                \/ Deleted(id)]_vars

\* a status read of a failed job while another job is registered
C27_Witness ==
    /\ StatusRead /\ resp.body.status = "failed" /\ resp.body.error = Failed("time_stretch")
    /\ \E id \in Registered : id # resp.id /\ jobs[id].status = "completed"

\* C28: deletion cannot race with a pipeline: delete_job runs only while no
\* process_job holds the loop, and once it has returned for a job, that
\* job's directories stay absent, its record stays away and no pipeline
\* step runs for it: a process_job still to start finds no record and
\* returns.
C28_DeleteDoesNotRace ==
    /\ [](running # None => running \in Registered)
    /\ [][\A id \in JobIds : Deleted(id) => running = None /\ running' = None]_vars
    /\ [][\A id \in used \ Registered :
            /\ running' # id
            /\ id \notin DOMAIN jobs'
            /\ FilesOf(fs', "temp", id) = {} /\ FilesOf(fs', "output", id) = {}]_vars

\* delete_job has returned for a job whose process_job is still to start
C28_Witness ==
    /\ resp = Response("delete", resp.id, 200, "Job deleted")
    /\ resp.id \in tasks

\* the job a step acts for: the one process_job runs for, the one delete_job
\* has removed, the one create_job has drawn an id for
ActsFor(id) == id = running \/ Deleted(id) \/ id \in used' \ used

\* C29: jobs are isolated: a step of process_job for a job, and create_job
\* and delete_job for a job, leave the record of every other job as it was
\* and create or delete files only under that job's two directories.
C29_JobsAreIsolated ==
    [][/\ \A id \in Registered :
            ~ActsFor(id) =>
                /\ id \in DOMAIN jobs' /\ jobs'[id] = jobs[id]
                /\ FilesOf(fs', "temp", id) = FilesOf(fs, "temp", id)
                /\ FilesOf(fs', "output", id) = FilesOf(fs, "output", id)
       /\ \A p \in (fs' \ fs) \cup (fs \ fs') : ActsFor(p[2])]_vars

\* a job in its clip stage, with files, beside a completed job with files
C29_Witness ==
    /\ running # None /\ pc = "stretch"
    /\ FilesOf(fs, "temp", running) # {}
    /\ \E id \in Registered \ {running} :
         jobs[id].status = "completed" /\ FilesOf(fs, "output", id) # {}

ClipOrder == <<"extract", "dims", "analyze", "crop", "duration", "stretch">>
ClipPos(at) == CHOOSE k \in 1..Len(ClipOrder) : ClipOrder[k] = at
RawClip == TempFile(running, "raw", i)
CroppedClip == TempFile(running, "cropped", i)
FinalClip == TempFile(running, "final", i)

\* process_clip goes through its steps in order, each finding the file the
\* one before it made
ClipStepsInOrder ==
    /\ [](running # None /\ pc \in {"dims", "analyze", "crop"} => RawClip \in fs)
    /\ [](running # None /\ pc \in {"duration", "stretch"} => CroppedClip \in fs)
    /\ [][running # None /\ pc \in ClipStage /\ pc' \in ClipStage /\ pc' # pc
            => \/ ClipPos(pc') = ClipPos(pc) + 1 /\ i' = i
               \/ pc = "stretch" /\ pc' = "extract" /\ i' = i + 1]_vars

\* process_clip returns: of the segment's clips only the final one is left
ClipSuccessCleansUp ==
    [][running # None /\ pc = "stretch" /\ running' # None
            => /\ FinalClip \in fs' /\ RawClip \notin fs' /\ CroppedClip \notin fs'
               /\ jobs'[running].segments[i + 1].clip_path]_vars

\* process_clip raises: the segment gets no clip path
ClipFailureSetsNoPath ==
    [][running # None /\ pc \in ClipStage /\ running' = None
            => ~jobs'[running].segments[i + 1].clip_path /\ FinalClip \notin fs']_vars

\* C30: process_clip runs extract, probe, locate, crop, stretch in that
\* order, each step on the output of the one before; when it returns, the
\* raw and cropped files of the segment are deleted and the final clip
\* remains; when a step fails the segment's clip_path stays unset and no
\* intermediate file of the segment is left behind.
C30_ClipIntermediatesRemoved ==
    /\ ClipStepsInOrder
    /\ ClipSuccessCleansUp
    /\ ClipFailureSetsNoPath
    /\ [][running # None /\ pc \in ClipStage /\ running' = None
            => RawClip \notin fs' /\ CroppedClip \notin fs']_vars

\* C31: a job that has reached COMPLETED has one thumbnail per segment: its
\* thumbnail list is as long as its segment list and the i-th entry is the
\* thumbnail taken from the clip of segment i.
C31_OneThumbnailPerSegment ==
    \A id \in Registered :
        (jobs[id].status = "completed" \/ jobs[id].completed_at) =>
            /\ Len(jobs[id].thumbnails) = Len(jobs[id].segments)
            /\ \A k \in 1..Len(jobs[id].thumbnails) :
                 /\ jobs[id].thumbnails[k] = k - 1
                 /\ jobs[id].segments[k].clip_path
                 /\ OutFile(id, "thumb", k - 1) \in fs

\* a completed job of two segments
C31_Witness ==
    \E id \in Registered :
        /\ jobs[id].status = "completed"
        /\ Len(jobs[id].segments) = 2 /\ jobs[id].thumbnails = <<0, 1>>

\* n = floor(p / q), for q > 0
IsFloor(n, p, q) == n * q <= p /\ p < (n + 1) * q
\* c = clamp(v, lo, hi), for lo <= hi
IsClamp(c, v, lo, hi) ==
    \/ v < lo /\ c = lo
    \/ v > hi /\ c = hi
    \/ lo <= v /\ v <= hi /\ c = v

\* C32: calculate_crop_region chooses the largest 9:16 rectangle and
\* centers it with clamping: if frame_h * 9/16 <= frame_w then crop_h =
\* frame_h and crop_w = floor(frame_h * 9/16), otherwise crop_w = frame_w
\* and crop_h = floor(frame_w * 16/9); crop_x = clamp(center_x -
\* floor(crop_w / 2), 0, frame_w - crop_w), and likewise crop_y.
C32_LargestRectangleCentered ==
    Called("calculate_crop_region") =>
        LET crop_x == ret.value[1]
            crop_y == ret.value[2]
            crop_w == ret.value[3]
            crop_h == ret.value[4]
            half_w == CHOOSE n \in 0..crop_w : IsFloor(n, crop_w, 2)
            half_h == CHOOSE n \in 0..crop_h : IsFloor(n, crop_h, 2)
        IN /\ ret.state = "returned"
           /\ IF 9 * arg.frame_height <= 16 * arg.frame_width
              THEN crop_h = arg.frame_height /\ IsFloor(crop_w, 9 * arg.frame_height, 16)
              ELSE crop_w = arg.frame_width /\ IsFloor(crop_h, 16 * arg.frame_width, 9)
           /\ IsClamp(crop_x, arg.subject_center[1] - half_w, 0, arg.frame_width - crop_w)
           /\ IsClamp(crop_y, arg.subject_center[2] - half_h, 0, arg.frame_height - crop_h)

\* a narrow frame: full width, the subject at its left edge, so that x is
\* clamped to 0 and y is not clamped
C32_Witness ==
    /\ Called("calculate_crop_region")
    /\ 9 * arg.frame_height > 16 * arg.frame_width
    /\ ret.value[3] = arg.frame_width /\ ret.value[4] < arg.frame_height
    /\ arg.subject_center[1] = 0 /\ ret.value[1] = 0
    /\ ret.value[2] > 0 /\ ret.value[2] < arg.frame_height - ret.value[4]

\* the subject point lies inside the frame
SubjectInFrame ==
    /\ 0 <= arg.subject_center[1] /\ arg.subject_center[1] < arg.frame_width
    /\ 0 <= arg.subject_center[2] /\ arg.subject_center[2] < arg.frame_height

\* the returned region is not empty and contains the subject point
ContainsSubject ==
    /\ ret.state = "returned"
    /\ ret.value[3] > 0 /\ ret.value[4] > 0
    /\ ret.value[1] <= arg.subject_center[1]
    /\ arg.subject_center[1] < ret.value[1] + ret.value[3]
    /\ ret.value[2] <= arg.subject_center[2]
    /\ arg.subject_center[2] < ret.value[2] + ret.value[4]

\* C36: for every positive frame size and every subject point inside the
\* frame, the region calculate_crop_region returns has positive width and
\* height and contains the subject point.
C36_CropContainsSubject ==
    (Called("calculate_crop_region") /\ SubjectInFrame) => ContainsSubject

\* the same for frames at least two pixels high
CropContainsSubjectFromHeight2 ==
    (Called("calculate_crop_region") /\ SubjectInFrame /\ arg.frame_height >= 2)
        => ContainsSubject

\* the indices sampled from a clip of at least one frame: in the clip, in
\* order, each within a frame of its evenly spaced position, the first and
\* the last frame among them
SampledEvenly ==
    LET n == arg.sample_frames
        last == arg.frame_count - 1
    IN /\ Len(ret.value) = n
       /\ \A k \in 1..n : ret.value[k] \in 0..last
       /\ \A k \in 1..(n - 1) : ret.value[k] <= ret.value[k + 1]
       /\ \A k \in 1..n :
            /\ ret.value[k] * (n - 1) <= (k - 1) * last
            /\ (k - 1) * last < (ret.value[k] + 1) * (n - 1)
       /\ ret.value[1] = 0 /\ ret.value[n] = last

\* C33 for clips that have a frame
SamplesOfNonEmptyClip ==
    (Called("sample_indices") /\ arg.frame_count >= 1) => SampledEvenly

\* C33: for every clip with frame_count >= 1 and every sample count >= 2
\* the indices analyze_clip samples are non-decreasing, lie in
\* 0..frame_count-1, are evenly spaced and include frame 0 and frame
\* frame_count-1; for a clip reporting frame_count = 0 no index outside the
\* clip is requested.
C33_SampleIndicesInClip ==
    Called("sample_indices") =>
        /\ arg.frame_count >= 1 => SampledEvenly
        /\ arg.frame_count = 0 =>
             \A k \in 1..Len(ret.value) : ret.value[k] \in 0..(arg.frame_count - 1)

\* the progress values of a stage
InStage(status, progress) ==
    CASE status = "pending" -> progress = 0
      [] status = "uploading" -> progress = 20
      [] status = "generating_audio" -> progress \in 20..40
      [] status = "processing_video" -> progress \in 45..80
      [] status = "finalizing" -> progress \in 85..95
      [] status = "completed" -> progress = 100
      [] OTHER -> FALSE

\* C34: the progress of a job that has not failed is within the bounds of
\* its status: PENDING 0, UPLOADING 20, GENERATING_AUDIO 20..40,
\* PROCESSING_VIDEO 45..80, FINALIZING 85..95, COMPLETED 100; the progress
\* of a FAILED job is the one it had, within the bounds of the status it
\* had, when it failed.
C34_ProgressWithinStage ==
    \A id \in Registered :
        IF jobs[id].status # "failed"
        THEN InStage(jobs[id].status, jobs[id].progress)
        ELSE /\ jobs[id].progress = written[id].progress
             /\ InStage(written[id].status, jobs[id].progress)

\* a job that failed on its second narration, at progress 32, beside a
\* job that has not failed
C34_Witness ==
    \E id \in Registered :
        /\ jobs[id].status = "failed" /\ jobs[id].progress = 32
        /\ written[id].status = "generating_audio"
        /\ \E other \in Registered : jobs[other].status = "processing_video"

Artifacts(job) ==
    /\ job.video_path /\ job.audio_path
    /\ \A k \in 1..Len(job.segments) :
         /\ job.segments[k].audio_duration # NoDuration
         /\ job.segments[k].audio_path
         /\ job.segments[k].clip_path

\* a COMPLETED job has its artifacts and its completion time recorded
CompletedHasArtifacts ==
    \A id \in Registered :
        jobs[id].status = "completed" => Artifacts(jobs[id]) /\ jobs[id].completed_at

\* C35: completion is consistent with the recorded artifacts: a COMPLETED
\* job has video_path, audio_path and completed_at set and every segment's
\* audio_duration, audio_path and clip_path set; completed_at is set only
\* for jobs whose status is COMPLETED.
C35_CompletionConsistent ==
    /\ CompletedHasArtifacts
    /\ \A id \in Registered : jobs[id].completed_at => jobs[id].status = "completed"

====
